---- MODULE Spec2Model ----
(***************************************************************************)
(* A model of src/lib/APMTracer.js: the tracer's context propagation       *)
(* (inject / extract over a caller-owned carrier), the trace decorator     *)
(* built by the constructor, and startSpan.                                *)
(*                                                                         *)
(* JavaScript values are modelled as strings so that values of different   *)
(* JavaScript types can be compared: "undefined", "null", "s:<text>" for a *)
(* string, "n:<digits>" for a number, "b:true" / "b:false" for a boolean,  *)
(* and "obj1", "obj2" for references to carrier objects on the heap.       *)
(* Property keys are sequences of one-character strings, so that           *)
(* toUpperCase is computed character by character.                         *)
(***************************************************************************)
EXTENDS Naturals, Sequences, FiniteSets, TLC

(***************************************************************************)
(* Bounds of the model.                                                    *)
(***************************************************************************)
\* ids the generator may hand out (inject and extract each take one)
MaxIds == 3
\* PRODUCER taggings (inject calls that pass validation)
MaxInjects == 2
\* a caller adds a property of its own only to a carrier shorter than this
MaxEntries == 1
\* the same, where the caller builds the carriers extract reads
MaxExtractEntries == 2
\* nodes appended to a trace
MaxNodes == 2
\* spans started
MaxSpans == 2

(***************************************************************************)
(* JavaScript values.                                                      *)
(***************************************************************************)
Undefined == "undefined"
Null == "null"
\* a property that is not there (distinct from one holding undefined)
Absent == "<absent>"

\* the carrier objects on the heap
ObjRefs == {"obj1", "obj2"}
\* the scalars a caller may pass where a carrier is expected
Scalars == {Null, Undefined, "n:0", "n:42", "s:", "s:abc", "b:false", "b:true"}

\* ToBoolean: the falsy values are undefined, null, 0, "" and false
Truthy(v) == v \notin {Undefined, Null, Absent, "n:0", "s:", "b:false"}

\* the typeof operator (typeof null is "object")
TypeOf(v) ==
    CASE v = Undefined -> "undefined"
      [] v = Null -> "object"
      [] v \in ObjRefs -> "object"
      [] v \in {"n:0", "n:42"} -> "number"
      [] v \in {"b:false", "b:true"} -> "boolean"
      [] OTHER -> "string"

(***************************************************************************)
(* Property keys and String.prototype.toUpperCase.                         *)
(***************************************************************************)
LowerAlpha == <<"a", "c", "d", "e", "i", "l", "n", "o", "r", "s", "t", "v", "x">>
UpperAlpha == <<"A", "C", "D", "E", "I", "L", "N", "O", "R", "S", "T", "V", "X">>

UpperChar(c) ==
    IF \E i \in DOMAIN LowerAlpha : LowerAlpha[i] = c
    THEN UpperAlpha[CHOOSE i \in DOMAIN LowerAlpha : LowerAlpha[i] = c]
    ELSE c

LowerChar(c) ==
    IF \E i \in DOMAIN UpperAlpha : UpperAlpha[i] = c
    THEN LowerAlpha[CHOOSE i \in DOMAIN UpperAlpha : UpperAlpha[i] = c]
    ELSE c

toUpperCaseIdentity(key) == key

\* objectKey.toUpperCase()
toUpperCase(key) == [i \in DOMAIN key |-> UpperChar(key[i])]

\* the carrier key names of ./constants
CARRIER_TRACE_ID == <<"T", "R", "A", "C", "E", "_", "I", "D">>
CARRIER_CORRELATION_ID ==
    <<"C", "O", "R", "R", "E", "L", "A", "T", "I", "O", "N", "_", "I", "D">>
CARRIER_TRANSACTION == <<"T", "R", "A", "N", "S", "A", "C", "T", "I", "O", "N">>
CARRIER_LEVEL == <<"L", "E", "V", "E", "L">>

NODE_TYPE_PRODUCER == "Producer"
CORR_ID_SCOPE_INTERACTION == "Interaction"

\* the format constants of the opentracing package
FORMAT_HTTP_HEADERS == "http_headers"
FORMAT_TEXT_MAP == "text_map"
FORMAT_BINARY == "binary"
Formats == {FORMAT_HTTP_HEADERS, FORMAT_TEXT_MAP, FORMAT_BINARY}

(***************************************************************************)
(* Objects: an object is the sequence of its own properties, in insertion  *)
(* order (the order of Object.keys for non-index keys).                    *)
(***************************************************************************)
HasOwn(obj, key) == \E i \in DOMAIN obj : obj[i].key = key

\* obj[key]
Get(obj, key) ==
    IF HasOwn(obj, key)
    THEN obj[CHOOSE i \in DOMAIN obj : obj[i].key = key].val
    ELSE Undefined

\* obj[key] = val: an existing property keeps its place, a new one goes last
Set(obj, key, val) ==
    IF HasOwn(obj, key)
    THEN [i \in DOMAIN obj |-> IF obj[i].key = key THEN [key |-> key, val |-> val] ELSE obj[i]]
    ELSE Append(obj, [key |-> key, val |-> val])

\* utils.generateSpanId(): the n-th id the generator hands out
generateSpanId(n) == "s:id" \o ToString(n)


(***************************************************************************)
(* State.                                                                  *)
(***************************************************************************)
VARIABLES
    \* propagation
    carriers,           \* the heap: carrier object reference -> its properties
    nextId,             \* the id generator: the number of the next id
    traceNodeTypes,     \* the setNodeType calls received by the owning traces
    written,            \* the CORRELATION_ID each recognised inject left in its carrier
    last,               \* the last call: its arguments, the state before it, its outcome
    \* decoration
    deploymentMetaData, \* the snapshot captured by the constructor
    protoTags,          \* properties every tag map inherits from Object.prototype
    trace,              \* the trace handed to the decorator: its nodes
    lastDecorate,       \* the last step on the trace; of a decoration, the trace before it
    \* span construction
    spans,              \* the spans constructed, as the fields their constructor got
    lastStart           \* the last startSpan call: its arguments as the caller gave them

propagationVars == <<carriers, nextId, traceNodeTypes, written, last>>
decorationVars == <<deploymentMetaData, protoTags, trace, lastDecorate>>
spanVars == <<spans, lastStart>>
vars == <<carriers, nextId, traceNodeTypes, written, last,
          deploymentMetaData, protoTags, trace, lastDecorate, spans, lastStart>>

(***************************************************************************)
(* Span contexts.                                                          *)
(***************************************************************************)
\* new APMSpanContext(id, traceId, parentId, transaction, level)
APMSpanContext(id, traceId, parentId, transaction, level) ==
    [type |-> "APMSpanContext", spanId |-> id, traceId |-> traceId,
     parentId |-> parentId, transaction |-> transaction, level |-> level,
     consumerCorrelationId |-> Undefined]

\* spanContext.setConsumerCorrelationId(correlationId)
setConsumerCorrelationId(spanContext, correlationId) ==
    [spanContext EXCEPT !.consumerCorrelationId = correlationId]

\* no context (the placeholder where a call has none)
NoContext == [APMSpanContext(Undefined, Undefined, Undefined, Undefined, Undefined)
                EXCEPT !.type = "none"]

\* the contexts callers inject: with no transaction and no level, with both set
\* to falsy values, and with both set, on another trace
Contexts ==
    {APMSpanContext("s:span1", "s:T1", Undefined, Undefined, Undefined),
     APMSpanContext("s:span2", "s:T1", "s:span1", "s:", "n:0"),
     APMSpanContext("s:span3", "s:T2", Undefined, "s:txn", "s:All")}

\* the first arguments of inject: a context, or a span, whose context() is one
FirstArgs == Contexts \cup {[type |-> "APMSpan", context |-> c] : c \in Contexts}

\* lines 148-150: a span is replaced by its context()
contextOf(spanContext) ==
    IF spanContext.type = "APMSpan" THEN spanContext.context ELSE spanContext

(***************************************************************************)
(* inject.                                                                 *)
(***************************************************************************)
CarrierRejectedNullOnly(carrier) == carrier \in {Null, Undefined}

\* lines 139-146: !carrier, then typeof carrier !== 'object'
CarrierRejected(carrier) ==
    \/ ~Truthy(carrier)
    \/ TypeOf(carrier) # "object"

_injectKeepCorrelationId(spanContext, carrier, id) ==
    LET c1 == Set(carrier, CARRIER_TRACE_ID, spanContext.traceId)
        c2 == IF HasOwn(c1, CARRIER_CORRELATION_ID) THEN c1
              ELSE Set(c1, CARRIER_CORRELATION_ID, id)
        c3 == IF Truthy(spanContext.transaction)
              THEN Set(c2, CARRIER_TRANSACTION, spanContext.transaction) ELSE c2
    IN  IF Truthy(spanContext.level)
        THEN Set(c3, CARRIER_LEVEL, spanContext.level) ELSE c3

\* the carrier object after _injectHttpAndTextMap(spanContext, carrier), the call
\* to utils.generateSpanId() returning id
_injectHttpAndTextMap(spanContext, carrier, id) ==
    LET c1 == Set(carrier, CARRIER_TRACE_ID, spanContext.traceId)
        c2 == Set(c1, CARRIER_CORRELATION_ID, id)
        c3 == IF Truthy(spanContext.transaction)
              THEN Set(c2, CARRIER_TRANSACTION, spanContext.transaction) ELSE c2
    IN  IF Truthy(spanContext.level)
        THEN Set(c3, CARRIER_LEVEL, spanContext.level) ELSE c3

\* the case labels of the switch on format, in inject and in extract
Recognised(format) == format \in {FORMAT_HTTP_HEADERS, FORMAT_TEXT_MAP}

injectSwitchFallThrough(spanContext, format, carrier, id) ==
    _injectHttpAndTextMap(spanContext, carrier, id)

\* the carrier object after the switch of inject
injectSwitch(spanContext, format, carrier, id) ==
    IF Recognised(format)
    THEN _injectHttpAndTextMap(spanContext, carrier, id)
    ELSE carrier

\* trace.setNodeType(nodeType, spanContext, correlationId), as the trace records it
setNodeType(nodes, nodeType, spanContext, value, scope) ==
    Append(nodes, [type |-> nodeType, ctx |-> spanContext, value |-> value, scope |-> scope])

\* what a call leaves in `last`
NoInject == [ctx |-> NoContext, format |-> FORMAT_BINARY, carrier |-> Undefined]

\* what a call leaves in `last`: its arguments (of inject's first, the context),
\* the state it found, its outcome,
\* and in `after` the inject it directly follows, if that inject got past the
\* validation of its carrier
Call(op, ctx, format, carrier, threw, result) ==
    [op |-> op, ctx |-> ctx, format |-> format, carrier |-> carrier,
     pre |-> carriers, preNextId |-> nextId, preNodes |-> Len(traceNodeTypes),
     threw |-> threw, result |-> result,
     after |-> IF last.op = "inject" /\ Len(traceNodeTypes) > last.preNodes
               THEN [ctx |-> last.ctx, format |-> last.format, carrier |-> last.carrier]
               ELSE NoInject]

NoCall ==
    [op |-> "none", ctx |-> NoContext, format |-> FORMAT_BINARY,
     carrier |-> Undefined, pre |-> [r \in ObjRefs |-> <<>>], preNextId |-> 1, preNodes |-> 0,
     threw |-> FALSE, result |-> NoContext, after |-> NoInject]

\* inject(spanContext, format, carrier)
inject(spanContext, format, carrier) ==
    /\ nextId <= MaxIds
    /\ Len(traceNodeTypes) < MaxInjects
    /\ LET ctx == contextOf(spanContext)
       IN
       IF CarrierRejected(carrier)
       THEN /\ last' = Call("inject", ctx, format, carrier, FALSE, NoContext)
            /\ UNCHANGED <<carriers, nextId, traceNodeTypes, written>>
       ELSE IF carrier \in ObjRefs
       THEN LET after == injectSwitch(ctx, format, carriers[carrier],
                                      generateSpanId(nextId))
            IN  /\ carriers' = [carriers EXCEPT ![carrier] = after]
                /\ nextId' = IF Recognised(format) THEN nextId + 1 ELSE nextId
                /\ written' = IF Recognised(format)
                              THEN Append(written, Get(after, CARRIER_CORRELATION_ID))
                              ELSE written
                /\ traceNodeTypes' =
                       setNodeType(traceNodeTypes, NODE_TYPE_PRODUCER, ctx,
                                   Get(after, CARRIER_CORRELATION_ID),
                                   CORR_ID_SCOPE_INTERACTION)
                /\ last' = Call("inject", ctx, format, carrier, FALSE, NoContext)
       \* a carrier that is no object and was let through: a property write to
       \* it, or a property read of null or undefined, throws a TypeError
       ELSE IF Recognised(format) \/ carrier \in {Null, Undefined}
       THEN /\ last' = Call("inject", ctx, format, carrier, TRUE, NoContext)
            /\ UNCHANGED <<carriers, nextId, traceNodeTypes, written>>
       ELSE /\ traceNodeTypes' =
                   setNodeType(traceNodeTypes, NODE_TYPE_PRODUCER, ctx,
                               Undefined, CORR_ID_SCOPE_INTERACTION)
            /\ last' = Call("inject", ctx, format, carrier, FALSE, NoContext)
            /\ UNCHANGED <<carriers, nextId, written>>
    /\ UNCHANGED <<decorationVars, spanVars>>

(***************************************************************************)
(* extract.                                                                *)
(***************************************************************************)
\* the own enumerable properties Object.keys(carrier) walks: those of the object,
\* none for a number or a boolean, the index properties of a string
OwnProperties(carrier) ==
    CASE carrier \in ObjRefs -> carriers[carrier]
      [] carrier = "s:abc" -> <<[key |-> <<"0">>, val |-> "s:a"],
                                [key |-> <<"1">>, val |-> "s:b"],
                                [key |-> <<"2">>, val |-> "s:c"]>>
      [] OTHER -> <<>>

\* one turn of the forEach callback: the switch on objectKey.toUpperCase()
scanKey(acc, property) ==
    LET upper == toUpperCase(property.key)
    IN  CASE upper = CARRIER_CORRELATION_ID -> [acc EXCEPT !.correlationId = property.val]
          [] upper = CARRIER_TRACE_ID -> [acc EXCEPT !.traceId = property.val]
          [] upper = CARRIER_TRANSACTION -> [acc EXCEPT !.transaction = property.val]
          [] upper = CARRIER_LEVEL -> [acc EXCEPT !.level = property.val]
          [] OTHER -> acc

\* Object.keys(carrier).forEach(...), from property i on
RECURSIVE scanKeys(_, _, _)
scanKeys(properties, i, acc) ==
    IF i > Len(properties) THEN acc
    ELSE scanKeys(properties, i + 1, scanKey(acc, properties[i]))

\* _extractHttpAndTextMap(carrier) over the carrier's own properties, the call to
\* utils.generateSpanId() returning id
_extractHttpAndTextMap(properties, id) ==
    LET found == scanKeys(properties, 1,
                          [correlationId |-> Null, traceId |-> Undefined,
                           level |-> Undefined, transaction |-> Undefined])
    IN  setConsumerCorrelationId(
            APMSpanContext(id, found.traceId, Undefined, found.transaction, found.level),
            found.correlationId)

\* extract(format, carrier)
extract(format, carrier) ==
    /\ nextId <= MaxIds
    /\ IF Recognised(format)
       THEN IF carrier \in {Null, Undefined}
            \* Object.keys(null) and Object.keys(undefined) throw a TypeError
            THEN /\ last' = Call("extract", NoContext, format, carrier, TRUE, NoContext)
                 /\ UNCHANGED nextId
            ELSE /\ last' = Call("extract", NoContext, format, carrier, FALSE,
                                 _extractHttpAndTextMap(OwnProperties(carrier),
                                                        generateSpanId(nextId)))
                 /\ nextId' = nextId + 1
       ELSE /\ last' = Call("extract", NoContext, format, carrier, FALSE,
                            APMSpanContext(Undefined, Undefined, Undefined, Undefined, Undefined))
            /\ UNCHANGED nextId
    /\ UNCHANGED <<carriers, traceNodeTypes, written>>
    /\ UNCHANGED <<decorationVars, spanVars>>

(***************************************************************************)
(* The caller, who owns the carriers.                                      *)
(***************************************************************************)
\* the keys a caller writes itself: other spellings of the recognised names, a
\* recognised name, and a name of its own
CallerKeys ==
    {<<"t", "r", "a", "c", "e", "_", "i", "d">>,
     <<"T", "r", "a", "c", "e", "_", "I", "d">>,
     <<"c", "o", "r", "r", "e", "l", "a", "t", "i", "o", "n", "_", "i", "d">>,
     <<"t", "r", "a", "n", "s", "a", "c", "t", "i", "o", "n">>,
     <<"L", "e", "v", "e", "l">>,
     CARRIER_TRANSACTION,
     <<"x", "-", "o", "t", "h", "e", "r">>}

\* those the caller of the propagation specification writes
FewCallerKeys ==
    {<<"t", "r", "a", "c", "e", "_", "i", "d">>, <<"x", "-", "o", "t", "h", "e", "r">>}

CallerValues == {"s:other", "s:else"}

\* carriers[ref][key] = val, by the caller between two calls of the tracer
callerSets(ref, key, val, limit) ==
    /\ HasOwn(carriers[ref], key) \/ Len(carriers[ref]) < limit
    /\ Get(carriers[ref], key) # val
    /\ carriers' = [carriers EXCEPT ![ref] = Set(carriers[ref], key, val)]
    /\ last' = [NoCall EXCEPT !.op = "set"]
    /\ UNCHANGED <<nextId, traceNodeTypes, written>>
    /\ UNCHANGED <<decorationVars, spanVars>>


(***************************************************************************)
(* The constructor and the trace decorator.                                *)
(***************************************************************************)
\* the tag keys of ./constants, and a tag of the application's own
PROP_SERVICE_NAME == "service"
PROP_BUILD_STAMP == "buildStamp"
TagKeys == {PROP_SERVICE_NAME, PROP_BUILD_STAMP, "http.url"}

\* the process-wide deployment info of ./deployment-meta-data
DEFAULT_META_DATA == [serviceName |-> "s:env-service", buildStamp |-> Undefined]

\* the deployment metadata a caller may configure: fields absent, empty or set
MetaDatas ==
    [serviceName : {Undefined, "s:", "s:checkout"}, buildStamp : {Undefined, "s:123"}]

\* line 37: prop.deploymentMetaData || DEFAULT_META_DATA
constructorMetaData(given, metaData) == IF given THEN metaData ELSE DEFAULT_META_DATA

\* a span's tag map, empty
NoTags == [k \in TagKeys |-> Absent]

\* {}.hasOwnProperty.call(tags, key)
hasOwnProperty(tags, key) == tags[key] # Absent

\* key in tags: own or inherited
hasProperty(tags, key) == tags[key] # Absent \/ key \in protoTags

\* span.setTag(key, value)
setTag(tags, key, value) == [tags EXCEPT ![key] = value]

decorateTagUnlessIn(tags, key, value) ==
    IF Truthy(value) /\ ~hasProperty(tags, key)
    THEN setTag(tags, key, value)
    ELSE tags

\* lines 47-52: one of the two guarded setTag calls
decorateTag(tags, key, value) ==
    IF Truthy(value) /\ ~hasOwnProperty(tags, key)
    THEN setTag(tags, key, value)
    ELSE tags

\* the closure this[TRACE_DECORATOR], applied to a trace's nodes
TRACE_DECORATOR(nodes) ==
    IF Len(nodes) = 0 THEN nodes
    ELSE LET rootNode == nodes[1]
         IN  IF ~rootNode.hasSpan THEN nodes
             ELSE LET t1 == decorateTag(rootNode.tags, PROP_SERVICE_NAME,
                                        deploymentMetaData.serviceName)
                      t2 == decorateTag(t1, PROP_BUILD_STAMP,
                                        deploymentMetaData.buildStamp)
                  IN  [nodes EXCEPT ![1].tags = t2]

\* getTraceDecorator()(trace)
decorate ==
    /\ trace' = TRACE_DECORATOR(trace)
    /\ lastDecorate' = [op |-> "decorate", pre |-> trace,
                        again |-> lastDecorate.op = "decorate"]
    /\ UNCHANGED <<deploymentMetaData, protoTags>>
    /\ UNCHANGED <<propagationVars, spanVars>>

\* the trace gets a node, with a span or without one
addNode(hasSpan) ==
    /\ Len(trace) < MaxNodes
    /\ trace' = Append(trace, [hasSpan |-> hasSpan, tags |-> NoTags])
    /\ lastDecorate' = [op |-> "addNode", pre |-> <<>>, again |-> FALSE]
    /\ UNCHANGED <<deploymentMetaData, protoTags>>
    /\ UNCHANGED <<propagationVars, spanVars>>

\* the values application code sets a tag to
AppTagValues == {Undefined, "s:mine"}

\* application code calls setTag on the span of node i
appSetsTag(i, key, value) ==
    /\ i \in DOMAIN trace
    /\ trace[i].hasSpan
    /\ trace[i].tags[key] # value
    /\ trace' = [trace EXCEPT ![i].tags = setTag(trace[i].tags, key, value)]
    /\ lastDecorate' = [op |-> "setTag", pre |-> <<>>, again |-> FALSE]
    /\ UNCHANGED <<deploymentMetaData, protoTags>>
    /\ UNCHANGED <<propagationVars, spanVars>>

\* a property appears on Object.prototype, which every tag map inherits from
prototypeGets(key) ==
    /\ key \notin protoTags
    /\ protoTags' = protoTags \cup {key}
    /\ lastDecorate' = [op |-> "prototype", pre |-> <<>>, again |-> FALSE]
    /\ UNCHANGED <<deploymentMetaData, trace>>
    /\ UNCHANGED <<propagationVars, spanVars>>

(***************************************************************************)
(* startSpan.                                                              *)
(***************************************************************************)
\* the fields objects callers pass; Absent marks a property the object lacks
FieldsObjects ==
    [operationName : {Absent, "s:B"}, childOf : {Absent, "ctx:span1"},
     references : {Absent, "refs:span1"}, tags : {Absent, "tags:1"},
     startTime : {Absent, "n:42"}]

\* {}
EmptyObject ==
    [operationName |-> Absent, childOf |-> Absent, references |-> Absent,
     tags |-> Absent, startTime |-> Absent]

SpanNames == {"s:A", "s:C", Undefined}

\* new APMSpan(tracer, fields): the span, as the fields it was constructed with
APMSpan(fields) == fields

\* startSpan(name, fields); given tells whether the caller passed fields
startSpan(name, given, fields) ==
    /\ Len(spans) < MaxSpans
    /\ LET fieldsWithOperation == IF given THEN fields ELSE EmptyObject
       IN  spans' = Append(spans,
                           APMSpan([fieldsWithOperation EXCEPT !.operationName = name]))
    /\ lastStart' = [op |-> "startSpan", name |-> name, given |-> given, fields |-> fields]
    /\ UNCHANGED <<propagationVars, decorationVars>>

(***************************************************************************)
(* Specifications: the propagation calls, the decoration, the spans.       *)
(***************************************************************************)
Init ==
    /\ carriers = [r \in ObjRefs |-> <<>>]
    /\ nextId = 1
    /\ traceNodeTypes = <<>>
    /\ written = <<>>
    /\ last = NoCall
    /\ \E given \in BOOLEAN, metaData \in MetaDatas :
           deploymentMetaData = constructorMetaData(given, metaData)
    /\ protoTags = {}
    /\ trace = <<>>
    /\ lastDecorate = [op |-> "none", pre |-> <<>>, again |-> FALSE]
    /\ spans = <<>>
    /\ lastStart = [op |-> "none", name |-> Undefined, given |-> FALSE, fields |-> EmptyObject]

\* one tracer with the default deployment metadata
InitPropagation ==
    /\ Init
    /\ deploymentMetaData = DEFAULT_META_DATA

\* the propagation calls on two carrier objects: obj1, which its owner writes to as
\* well, and obj2, which only inject writes to
Next ==
    \/ \E spanContext \in FirstArgs, format \in Formats, carrier \in ObjRefs :
           inject(spanContext, format, carrier)
    \/ \E format \in Formats, carrier \in ObjRefs :
           extract(format, carrier)
    \/ \E key \in FewCallerKeys :
           callerSets("obj1", key, "s:other", MaxEntries)

Spec == InitPropagation /\ [][Next]_vars

\* every value passed as a carrier, to a tracer that injected nothing before
NextScalars ==
    \/ \E spanContext \in FirstArgs, format \in Formats,
          carrier \in {"obj1"} \cup Scalars :
           inject(spanContext, format, carrier)
    \/ \E format \in Formats, carrier \in {"obj1"} \cup Scalars :
           extract(format, carrier)

SpecScalars == InitPropagation /\ [][NextScalars]_vars

\* extract, on a carrier the caller builds key by key, and on every scalar
NextExtract ==
    \/ \E format \in Formats, carrier \in ObjRefs \cup Scalars :
           extract(format, carrier)
    \/ \E key \in CallerKeys, val \in CallerValues :
           callerSets("obj1", key, val, MaxExtractEntries)

SpecExtract == InitPropagation /\ [][NextExtract]_vars

NextDecorate ==
    \/ decorate
    \/ \E hasSpan \in BOOLEAN : addNode(hasSpan)
    \/ \E i \in 1..MaxNodes, key \in TagKeys, value \in AppTagValues :
           appSetsTag(i, key, value)
    \/ prototypeGets(PROP_BUILD_STAMP)

SpecDecorate == Init /\ [][NextDecorate]_vars

NextStartSpan ==
    \E name \in SpanNames, given \in BOOLEAN, fields \in FieldsObjects :
        /\ given \/ fields = EmptyObject
        /\ startSpan(name, given, fields)

SpecStartSpan == InitPropagation /\ [][NextStartSpan]_vars


(***************************************************************************)
(* The claims.                                                             *)
(***************************************************************************)
\* the last call was an inject that got past the validation of its carrier
InjectedInto(ref) == last.op = "inject" /\ last.carrier = ref /\ ref \in ObjRefs

\* the property of name `key` was written with `value`, or, if `value` is undefined
\* (not set), was left as it was
WrittenWhenSet(before, now, key, value) ==
    IF value # Undefined
    THEN HasOwn(now, key) /\ Get(now, key) = value
    ELSE HasOwn(now, key) = HasOwn(before, key) /\ Get(now, key) = Get(before, key)

\* C1: an inject with a recognised format leaves TRACE_ID equal to the context's
\* traceId and CORRELATION_ID equal to the id minted by the call, and writes
\* TRANSACTION (LEVEL) exactly when the context has a transaction (level) set,
\* with the context's value, the empty string and the number 0 included.
C1_InjectWritesContext ==
    \A ref \in ObjRefs :
        (InjectedInto(ref) /\ Recognised(last.format)) =>
            LET before == last.pre[ref]
                now == carriers[ref]
            IN  /\ Get(now, CARRIER_TRACE_ID) = last.ctx.traceId
                /\ Get(now, CARRIER_CORRELATION_ID) = generateSpanId(last.preNextId)
                /\ WrittenWhenSet(before, now, CARRIER_TRANSACTION, last.ctx.transaction)
                /\ WrittenWhenSet(before, now, CARRIER_LEVEL, last.ctx.level)

\* the last call was an extract that directly followed an inject of the same
\* recognised format into the same carrier object
ExtractedAfterInject ==
    /\ last.op = "extract"
    /\ last.after # NoInject
    /\ last.after.carrier = last.carrier
    /\ last.after.format = last.format
    /\ Recognised(last.format)

\* C2: round trip: extract(f, carrier) called right after inject(c, f, carrier),
\* f recognised, returns a context whose traceId, transaction and level are those
\* of c and whose consumer correlation id is the correlation id inject wrote,
\* whatever the carrier held before.
C2_RoundTrip ==
    ExtractedAfterInject =>
        /\ ~last.threw
        /\ last.result.traceId = last.after.ctx.traceId
        /\ last.result.transaction = last.after.ctx.transaction
        /\ last.result.level = last.after.ctx.level
        /\ last.result.consumerCorrelationId =
               Get(carriers[last.carrier], CARRIER_CORRELATION_ID)

\* C3: every inject with a recognised format leaves a correlation id in its
\* carrier that differs from the one every earlier inject left, in the same
\* carrier or another, and from the one the carrier held before the call.
C3_FreshCorrelationIds ==
    /\ \A i, j \in DOMAIN written : i # j => written[i] # written[j]
    /\ \A ref \in ObjRefs :
           (InjectedInto(ref) /\ Recognised(last.format)) =>
               /\ written # <<>>
               /\ Get(carriers[ref], CARRIER_CORRELATION_ID) = written[Len(written)]
               /\ Get(carriers[ref], CARRIER_CORRELATION_ID) #
                      Get(last.pre[ref], CARRIER_CORRELATION_ID)

\* two successive injects of the same context into the same carrier
C3_Witness ==
    /\ InjectedInto("obj1")
    /\ Recognised(last.format)
    /\ last.after = [ctx |-> last.ctx, format |-> last.format, carrier |-> "obj1"]
    /\ Len(written) = 2

\* C4: every inject whose carrier passes validation tags the owning trace once
\* with a PRODUCER node for the context, with interaction scope and the
\* correlation id of this call (the carrier's CORRELATION_ID when the format is
\* recognised), and no two PRODUCER taggings carry the same correlation id.
C4_ProducerTaggedWithFreshId ==
    /\ \A ref \in ObjRefs :
           InjectedInto(ref) =>
               /\ Len(traceNodeTypes) = last.preNodes + 1
               /\ LET node == traceNodeTypes[Len(traceNodeTypes)]
                  IN  /\ node.type = NODE_TYPE_PRODUCER
                      /\ node.ctx = last.ctx
                      /\ node.scope = CORR_ID_SCOPE_INTERACTION
                      /\ Recognised(last.format) =>
                             node.value = Get(carriers[ref], CARRIER_CORRELATION_ID)
    /\ \A i, j \in DOMAIN traceNodeTypes :
           i # j => traceNodeTypes[i].value # traceNodeTypes[j].value

\* C5: an inject with a format other than HTTP_HEADERS and TEXT_MAP into a valid
\* carrier raises nothing and leaves every carrier with the keys and values it
\* had; it takes no id, and its one effect is the PRODUCER tagging of the trace.
C5_UnknownFormatLeavesCarrier ==
    \A ref \in ObjRefs :
        (InjectedInto(ref) /\ ~Recognised(last.format)) =>
            /\ ~last.threw
            /\ carriers = last.pre
            /\ nextId = last.preNextId
            /\ Len(traceNodeTypes) = last.preNodes + 1
            /\ traceNodeTypes[Len(traceNodeTypes)].type = NODE_TYPE_PRODUCER
            /\ traceNodeTypes[Len(traceNodeTypes)].ctx = last.ctx

\* an unrecognised-format inject into a carrier an earlier inject filled
C5_Witness ==
    /\ InjectedInto("obj1")
    /\ last.format = FORMAT_BINARY
    /\ HasOwn(carriers["obj1"], CARRIER_CORRELATION_ID)
    /\ Len(traceNodeTypes) = 2

\* C6: an inject whose carrier is null, undefined or not an object returns
\* without raising: no carrier changes, no id is taken, no trace is tagged.
C6_InvalidCarrierNoEffect ==
    (last.op = "inject" /\ last.carrier \notin ObjRefs) =>
        /\ ~last.threw
        /\ carriers = last.pre
        /\ nextId = last.preNextId
        /\ Len(traceNodeTypes) = last.preNodes

\* inject(ctx, TEXT_MAP, 42), called by a tracer that has injected before
C6_Witness ==
    /\ last.op = "inject"
    /\ last.carrier = "n:42"
    /\ last.format = FORMAT_TEXT_MAP
    /\ traceNodeTypes # <<>>
    /\ carriers["obj1"] # <<>>

\* the same key but for the case of its letters
EqualsIgnoringCase(a, b) ==
    /\ Len(a) = Len(b)
    /\ \A i \in DOMAIN a : LowerChar(a[i]) = LowerChar(b[i])

\* the value of the last property named `name` in any letter case, else `default`
LastNamed(properties, name, default) ==
    LET hits == {i \in DOMAIN properties : EqualsIgnoringCase(properties[i].key, name)}
    IN  IF hits = {} THEN default
        ELSE properties[CHOOSE i \in hits : \A j \in hits : j <= i].val

SwapCaseChar(c) == IF UpperChar(c) = c THEN LowerChar(c) ELSE UpperChar(c)

\* the carrier with every letter of every key turned to the other case
SwapCase(properties) ==
    [i \in DOMAIN properties |->
        [key |-> [n \in DOMAIN properties[i].key |-> SwapCaseChar(properties[i].key[n])],
         val |-> properties[i].val]]

RecognisedNames ==
    {CARRIER_TRACE_ID, CARRIER_CORRELATION_ID, CARRIER_TRANSACTION, CARRIER_LEVEL}

\* the carrier without the keys that match no recognised name
OnlyRecognised(properties) ==
    SelectSeq(properties,
              LAMBDA p : \E name \in RecognisedNames : EqualsIgnoringCase(p.key, name))

\* C7: extract with a recognised format matches the carrier's keys against the
\* four names in any letter case: the result holds the values found (a missing
\* transaction or level stays undefined), is the same for the carrier with the
\* case of its keys changed and for the carrier without its other keys, has the
\* span id generated by this call, and the carrier is left as it was.
C7_ExtractIgnoresKeyCase ==
    \A ref \in ObjRefs :
        (last.op = "extract" /\ last.carrier = ref /\ Recognised(last.format)) =>
            LET properties == last.pre[ref]
                r == last.result
                id == generateSpanId(last.preNextId)
            IN  /\ ~last.threw
                /\ r.traceId = LastNamed(properties, CARRIER_TRACE_ID, Undefined)
                /\ r.transaction = LastNamed(properties, CARRIER_TRANSACTION, Undefined)
                /\ r.level = LastNamed(properties, CARRIER_LEVEL, Undefined)
                /\ r.consumerCorrelationId =
                       LastNamed(properties, CARRIER_CORRELATION_ID, Null)
                /\ r = _extractHttpAndTextMap(SwapCase(properties), id)
                /\ r = _extractHttpAndTextMap(OnlyRecognised(properties), id)
                /\ r.spanId = id
                /\ nextId = last.preNextId + 1
                /\ carriers = last.pre

\* a carrier with two spellings of the trace id key, neither the upper-case one
C7_Witness ==
    /\ last.op = "extract"
    /\ last.carrier = "obj1"
    /\ last.format = FORMAT_HTTP_HEADERS
    /\ Len(carriers["obj1"]) = 2
    /\ \A i \in {1, 2} :
           /\ EqualsIgnoringCase(carriers["obj1"][i].key, CARRIER_TRACE_ID)
           /\ carriers["obj1"][i].key # CARRIER_TRACE_ID
    /\ carriers["obj1"][1].val # carriers["obj1"][2].val
    /\ last.result.traceId = carriers["obj1"][2].val

\* C8: extract never raises and never returns null, whatever the format and the
\* carrier (an object, null, undefined, a scalar); for an unrecognised format
\* the context returned carries no traceId and no other identifier.
C8_ExtractNeverThrows ==
    last.op = "extract" =>
        /\ ~last.threw
        /\ last.result.type = "APMSpanContext"
        /\ ~Recognised(last.format) =>
               last.result = APMSpanContext(Undefined, Undefined, Undefined,
                                            Undefined, Undefined)

\* the tag `key` of the root span after decoration: what it was if the span's tag
\* map had it as an own property, else the metadata field if that is set
InsertedIfAbsent(before, now, key, field) ==
    IF before[key] # Absent THEN now[key] = before[key]
    ELSE IF Truthy(field) THEN now[key] = field
    ELSE now[key] = Absent

\* C9: the decorator inserts only where absent and only on the root: the root
\* span's service-name and build-stamp tags keep their value where they were own
\* properties of the tag map and else take the deployment metadata's field where
\* it is set; no other tag and no other node changes; a trace with no nodes or
\* with a root without a span is left as it is; a second decoration changes
\* nothing.
C9_DecoratorInsertsIfAbsent ==
    lastDecorate.op = "decorate" =>
        LET before == lastDecorate.pre
        IN  /\ Len(trace) = Len(before)
            /\ \A i \in DOMAIN trace : i > 1 => trace[i] = before[i]
            /\ (before # <<>> /\ ~before[1].hasSpan) => trace = before
            /\ (before # <<>> /\ before[1].hasSpan) =>
                   /\ trace[1].hasSpan
                   /\ \A key \in TagKeys \ {PROP_SERVICE_NAME, PROP_BUILD_STAMP} :
                          trace[1].tags[key] = before[1].tags[key]
                   /\ InsertedIfAbsent(before[1].tags, trace[1].tags, PROP_SERVICE_NAME,
                                       deploymentMetaData.serviceName)
                   /\ InsertedIfAbsent(before[1].tags, trace[1].tags, PROP_BUILD_STAMP,
                                       deploymentMetaData.buildStamp)
            /\ lastDecorate.again => trace = before

\* a root span with a service tag of its own and a build stamp it only inherits,
\* decorated with both metadata fields set, in a trace with a second span
C9_Witness ==
    /\ lastDecorate.op = "decorate"
    /\ Len(trace) = 2
    /\ trace[2].hasSpan
    /\ lastDecorate.pre[1].hasSpan
    /\ lastDecorate.pre[1].tags[PROP_SERVICE_NAME] = "s:mine"
    /\ lastDecorate.pre[1].tags[PROP_BUILD_STAMP] = Absent
    /\ PROP_BUILD_STAMP \in protoTags
    /\ deploymentMetaData = [serviceName |-> "s:checkout", buildStamp |-> "s:123"]
    /\ trace[1].tags[PROP_BUILD_STAMP] = "s:123"

\* C10: startSpan(name, fields) constructs the span with fields.operationName
\* when the caller supplied one and with name otherwise; childOf, references,
\* tags and startTime reach the span constructor as given.
C10_OperationNameFromFields ==
    lastStart.op = "startSpan" =>
        LET span == spans[Len(spans)]
            given == IF lastStart.given THEN lastStart.fields ELSE EmptyObject
        IN  /\ span.operationName =
                   IF given.operationName # Absent THEN given.operationName
                   ELSE lastStart.name
            /\ span.childOf = given.childOf
            /\ span.references = given.references
            /\ span.tags = given.tags
            /\ span.startTime = given.startTime

====
